---------------------------- MODULE Spec2Model ----------------------------
(***************************************************************************)
(* Audio deepfake detection front end: the upload section, the two API     *)
(* helpers (POST /predict, POST /predict-url), the Index page's            *)
(* handleAnalyze / mapBackendResponse / handleReset and the ResultsDisplay *)
(* component, together with the feature framing of the inference pipeline *)
(* and the service process behind the API (classifier lifecycle, Waveform  *)
(* Loader and its temporary files).                                        *)
(*                                                                         *)
(* Numbers.  A JavaScript number is modelled as an exact decimal in fixed  *)
(* point: the integer n stands for n / One, One being 1.0.  With           *)
(* One = 10^5 the fraction 0.49999 is 49999 and 50% is 5000000.            *)
(* Strings on which the code works character by character (file names,    *)
(* URLs, spectrogram paths) are sequences of one-character strings.        *)
(* A JSON object is a record whose domain holds the fields it carries.     *)
(***************************************************************************)
EXTENDS Integers, Sequences, FiniteSets, TLC

(***************************************************************************)
(* Bounds of the model.                                                    *)
(***************************************************************************)
\* handleAnalyze invocations in one run
MaxCalls == 2
\* frames a waveform may yield beyond the fixed length
MaxExtraFrames == 12
\* distinct waveforms per duration
MaxWaveforms == 2
\* requests the service process accepts in one run
MaxRequests == 2

(***************************************************************************)
(* Numbers                                                                 *)
(***************************************************************************)
\* the number 1 (Index.tsx: confidenceRaw <= 1), in fixed point
One == 100000

Pct(n) == n * One

\* Math.round(x): the nearest integer, halves towards +infinity.
\* x is fixed point, the result a plain integer.
MathRound(x) == (x + One \div 2) \div One

\* Math.round(x * 100) / 100
Round2(x) == (MathRound(x * 100) * One) \div 100

(***************************************************************************)
(* Strings                                                                 *)
(***************************************************************************)
Last(s) == s[Len(s)]

startsWith(s, p) == Len(s) >= Len(p) /\ SubSeq(s, 1, Len(p)) = p

Drop(s, n) == SubSeq(s, n + 1, Len(s))

\* String.prototype.split(sep) for a one-character separator: the pieces
\* between the separators, in order (one piece when sep does not occur).
RECURSIVE split(_, _)
split(s, sep) ==
    IF \A i \in 1..Len(s) : s[i] # sep
    THEN <<s>>
    ELSE LET i == CHOOSE k \in 1..Len(s) :
                      s[k] = sep /\ \A j \in 1..(k - 1) : s[j] # sep
         IN  <<SubSeq(s, 1, i - 1)>> \o split(Drop(s, i), sep)

\* Array.prototype.pop(): the last element
pop(a) == Last(a)

lowerOf(c) ==
    CASE c = "A" -> "a" [] c = "M" -> "m" [] c = "P" -> "p" [] c = "V" -> "v"
      [] c = "W" -> "w" [] c = "T" -> "t" [] c = "X" -> "x"
      [] OTHER -> c

toLowerCase(s) == [i \in 1..Len(s) |-> lowerOf(s[i])]

\* String.prototype.trim(): blanks removed at both ends
RECURSIVE trimStart(_)
trimStart(s) == IF s # <<>> /\ s[1] = " " THEN trimStart(Drop(s, 1)) ELSE s

RECURSIVE trimEnd(_)
trimEnd(s) ==
    IF s # <<>> /\ Last(s) = " " THEN trimEnd(SubSeq(s, 1, Len(s) - 1)) ELSE s

trim(s) == trimEnd(trimStart(s))

\* s.replace(/\/$/, ""): one trailing slash removed
stripTrailingSlash(s) ==
    IF s # <<>> /\ Last(s) = "/" THEN SubSeq(s, 1, Len(s) - 1) ELSE s

HTTP == <<"h", "t", "t", "p", ":", "/", "/">>
HTTPS == <<"h", "t", "t", "p", "s", ":", "/", "/">>

\* a JSON object carries field f
Has(d, f) == f \in DOMAIN d

(***************************************************************************)
(* State                                                                   *)
(***************************************************************************)
VARIABLES
    API_BASE,      \* Index.tsx / ResultsDisplay: VITE_API_URL or its default
    isAnalyzing,   \* Index: useState(false)
    result,        \* Index: useState<AnalysisResult | null>(null)
    toast,         \* the toast last shown (NoFields before the first)
    youtubeUrl,    \* UploadSection: useState("")
    calls,         \* handleAnalyze invocations awaiting a response
    started,       \* number of handleAnalyze invocations so far
    done,          \* history: how the handleAnalyze that ended last ended
    latest,        \* history: the latest-started analysis displayed so far
    waveform,      \* feature extractor: the loaded waveform
    mfcc,          \* feature extractor: the extracted coefficient sequence
    features,      \* feature extractor: the FeatureMatrix handed on
    fpc,           \* feature extractor: position in the pipeline
    process,       \* service process: starting, serving or stopped
    classifier,    \* service process: the process-wide classifier
    loads,         \* history: number of loads of the classifier so far
    requests,      \* service process: the requests accepted, in order
    disk           \* the temporary files on disk

pageVars == <<API_BASE, isAnalyzing, result, toast, youtubeUrl, calls,
              started, done, latest>>

featVars == <<waveform, mfcc, features, fpc>>

svcVars == <<process, classifier, loads, requests, disk>>

vars == <<pageVars, featVars, svcVars>>

\* the empty record: an object with no field, also "no value yet"
NoFields == [x \in {} |-> x]

\* result = null
NoResult == NoFields

(***************************************************************************)
(* Index.tsx: mapBackendResponse                                           *)
(***************************************************************************)
\* a truthy string field of a JSON object
Truthy(d, f) == Has(d, f) /\ d[f] # <<>>

\* mutant: the label derived from the confidence as rounded for display
classificationOfRounded(data) ==
    IF Has(data, "confidence")
    THEN LET percent == IF data.confidence <= One
                        THEN data.confidence * 100
                        ELSE data.confidence
         IN  IF Round2(percent) >= Pct(50) THEN "deepfake" ELSE "genuine"
    ELSE "genuine"

\* mutant: the prediction compared without regard to case
classificationOfAnyCase(data) ==
    IF Has(data, "prediction")
       /\ data.prediction \in {"fake", "Fake", "FAKE",
                               "deepfake", "Deepfake", "DEEPFAKE"}
    THEN "deepfake"
    ELSE "genuine"

\* classification mapping (Index.tsx line 86)
classificationOf(data) ==
    IF Has(data, "prediction")
       /\ (data.prediction = "fake" \/ data.prediction = "deepfake")
    THEN "deepfake"
    ELSE "genuine"

\* typeof data.confidence === "number" ? data.confidence : 0
\* (a response carries a number under confidence or does not carry the
\* field; a non-numeric value takes the same branch as the missing field)
confidenceRawOf(data) == IF Has(data, "confidence") THEN data.confidence ELSE 0

\* confidenceRaw <= 1 ? confidenceRaw * 100 : confidenceRaw
toPercent(confidenceRaw) ==
    IF confidenceRaw <= One THEN confidenceRaw * 100 ELSE confidenceRaw

\* `${API_BASE.replace(/\/$/, "")}${path.startsWith("/") ? "" : "/"}${path}`
absoluteUrl(base, path) ==
    stripTrailingSlash(base)
        \o (IF startsWith(path, <<"/">>) THEN <<>> ELSE <<"/">>)
        \o path

pathUrl(base, path) ==
    IF startsWith(path, HTTP) \/ startsWith(path, HTTPS)
    THEN path
    ELSE absoluteUrl(base, path)

\* mutant: the URL template applied without looking whether the response
\* carries a path (the template then renders `undefined`)
spectrogramUrlOfUnchecked(data) ==
    IF Truthy(data, "spectrogram_path")
    THEN [spectrogramUrl |-> pathUrl(API_BASE, data.spectrogram_path)]
    ELSE IF Truthy(data, "spectrogram")
    THEN [spectrogramUrl |-> data.spectrogram]
    ELSE IF Truthy(data, "spectrogramUrl")
    THEN [spectrogramUrl |-> data.spectrogramUrl]
    ELSE [spectrogramUrl |-> absoluteUrl(API_BASE, <<"u", "n", "d", "e", "f", "i", "n", "e", "d">>)]

\* mutant: the inline data URI treated like a relative path
spectrogramUrlOfPrefixed(data) ==
    IF Truthy(data, "spectrogram_path")
    THEN [spectrogramUrl |-> pathUrl(API_BASE, data.spectrogram_path)]
    ELSE IF Truthy(data, "spectrogram")
    THEN [spectrogramUrl |-> pathUrl(API_BASE, data.spectrogram)]
    ELSE IF Truthy(data, "spectrogramUrl")
    THEN [spectrogramUrl |-> data.spectrogramUrl]
    ELSE NoFields

\* the spectrogramUrl of mapBackendResponse, as a record that carries the
\* field only when the code assigns it (undefined otherwise)
spectrogramUrlOf(data) ==
    IF Truthy(data, "spectrogram_path")
    THEN [spectrogramUrl |-> pathUrl(API_BASE, data.spectrogram_path)]
    ELSE IF Truthy(data, "spectrogram")
    THEN [spectrogramUrl |-> data.spectrogram]
    ELSE IF Truthy(data, "spectrogramUrl")
    THEN [spectrogramUrl |-> data.spectrogramUrl]
    ELSE NoFields

\* a ?? b for a field of data: the field when carried, else b (b is a
\* record with field `as`, or NoFields for undefined)
Coalesce(data, f, as, b) ==
    IF Has(data, f) THEN (as :> data[f]) ELSE b

mapBackendResponse(data, fileName, analysisTimeFromClient) ==
    [classification |-> classificationOf(data),
     confidence |-> Round2(toPercent(confidenceRawOf(data)))]
        @@ spectrogramUrlOf(data)
        @@ Coalesce(data, "file_name", "fileName", fileName)
        @@ Coalesce(data, "analysis_time", "analysisTime", analysisTimeFromClient)
        @@ Coalesce(data, "spectral_heuristic", "spectralHeuristic", NoFields)

(***************************************************************************)
(* ResultsDisplay.tsx (in Contact.tsx): normalized and the rendering       *)
(***************************************************************************)
\* the value of field f of r under the name `as`, undefined when absent
Field(r, f, as) == IF Has(r, f) THEN (as :> r[f]) ELSE NoFields

\* the raw-response branch of normalized (Contact.tsx lines 122-157)
normalizedApi(api) ==
    LET classification ==
            IF Has(api, "prediction") /\ api.prediction # ""
               /\ (api.prediction = "fake" \/ api.prediction = "deepfake")
            THEN "deepfake"
            ELSE "genuine"
        confidencePercent ==
            IF Has(api, "confidence")
            THEN toPercent(api.confidence)
            ELSE IF Has(api, "probabilities")
            THEN toPercent(api.probabilities.fake)
            ELSE 0
        spectrogramUrl ==
            IF Truthy(api, "spectrogram")
            THEN [spectrogramUrl |-> api.spectrogram]
            ELSE IF Truthy(api, "spectrogram_path")
            THEN [spectrogramUrl |-> pathUrl(API_BASE, api.spectrogram_path)]
            ELSE NoFields
    IN  [classification |-> classification,
         confidence |-> Round2(confidencePercent)]
            @@ spectrogramUrl
            @@ Field(api, "file_name", "fileName")
            @@ Field(api, "analysis_time", "analysisTime")
            @@ Field(api, "spectral_heuristic", "spectralHeuristic")

\* the already-normalized branch (Contact.tsx lines 110-120)
normalizedPass(r) ==
    [classification |-> r.classification, confidence |-> r.confidence]
        @@ Field(r, "spectrogramUrl", "spectrogramUrl")
        @@ Field(r, "fileName", "fileName")
        @@ Field(r, "analysisTime", "analysisTime")
        @@ Field(r, "spectralHeuristic", "spectralHeuristic")

\* mutant: the unit conversion applied to an already normalized result too
normalizedRescaling(r) ==
    IF Has(r, "classification") /\ Has(r, "confidence")
    THEN [normalizedPass(r) EXCEPT !.confidence = toPercent(@)]
    ELSE normalizedApi(r)

normalized(r) ==
    IF Has(r, "classification") /\ Has(r, "confidence")
    THEN normalizedPass(r)
    ELSE normalizedApi(r)

isDeepfake(r) == normalized(r).classification = "deepfake"

deepfakeProbability(r) == normalized(r).confidence

\* mutant: the complement taken of a fraction, not of a percentage
genuineProbabilityOfFraction(r) == Round2(One - deepfakeProbability(r))

genuineProbability(r) == Round2(Pct(100) - deepfakeProbability(r))

topDisplayPercent(r) ==
    IF isDeepfake(r) THEN deepfakeProbability(r) ELSE genuineProbability(r)

\* what ResultsDisplay puts on the page for result r
ResultsDisplay(r) ==
    [heading |-> IF isDeepfake(r) THEN "Deepfake Detected" ELSE "Genuine Audio",
     topLabel |-> IF isDeepfake(r) THEN "Confidence (Deepfake)"
                                   ELSE "Confidence (Genuine)",
     topDisplayPercent |-> topDisplayPercent(r),
     deepfakeProbability |-> deepfakeProbability(r),
     genuineProbability |-> genuineProbability(r),
     image |-> IF Truthy(normalized(r), "spectrogramUrl")
               THEN <<"img", normalized(r).spectrogramUrl>>
               ELSE <<"placeholder">>]

(***************************************************************************)
(* Inputs: files, URLs typed by the user, responses of the backend         *)
(***************************************************************************)
\* 100 * 1024 * 1024 (UploadSection.tsx line 59)
MaxFileSize == 100 * 1024 * 1024

FileNames ==
    { <<"a", ".", "w", "a", "v">>, <<"A", ".", "W", "A", "V">>, <<"a", ".", "m", "p", "3">>, <<"a", ".", "m", "p", "4">>,
      <<"a", ".", "m", "4", "a">>, <<"a", ".", "w", "e", "b", "m">>,
      <<"a", ".", "t", "x", "t">>, <<"w", "a", "v">>, <<"n", "o", "t", "e", "s">>, <<"a", ".">>,
      <<"a", ".", "w", "a", "v", ".", "t", "x", "t">> }

FileSizes == {1, MaxFileSize - 1, MaxFileSize, MaxFileSize + 1}

\* every name with a small size, and every size with two of the names
Files ==
    [name : FileNames, size : {1}]
        \cup [name : {<<"a", ".", "w", "a", "v">>, <<"a", ".", "t", "x", "t">>}, size : FileSizes]

UrlInputs ==
    { <<" ">>,
      <<"f", "t", "p", ":", "/", "/", "x", "/", "v">>,
      <<"h", "t", "t", "p", "s", ":", "/", "/", "w", "w", "w", ".", "y", "o", "u", "t", "u", "b", "e", ".", "c", "o", "m", "/", "v">>,
      <<"y", "o", "u", "t", "u", ".", "b", "e", "/", "a", "/", "b">>,
      <<"h", "t", "t", "p", ":", "/", "/", "y", "o", "u", "t", "u", "b", "e", ".", "c", "o", "m", "/">> }

DataUri == <<"d", "a", "t", "a", ":", "p", "n", "g">>

SpectrogramPaths ==
    { <<>>, <<"/", "s", "/", "a", ".", "p", "n", "g">>, <<"s", "/", "a", ".", "p", "n", "g">>,
      <<"h", "t", "t", "p", ":", "/", "/", "c", "/", "a", ".", "p", "n", "g">>,
      <<"h", "t", "t", "p", "s", ":", "/", "/", "c", "/", "a", ".", "p", "n", "g">> }

ApiBases == { <<"h", "t", "t", "p", ":", "/", "/", "h", ":", "8">>, <<"h", "t", "t", "p", ":", "/", "/", "h", ":", "8", "/">> }

\* confidence values a response carries, fixed point (0.005 is 500)
ConfidenceValues ==
    { 0 - One, 0, 500, 1000, 49994, 49995, 49999, 50000, 50001, 92000, One,
      One + 1, 150000, 4999900, Pct(50), Pct(92), Pct(100), Pct(150) }

\* the records over the fields of `fields` carried or not, each carried
\* field drawn from its set
RECURSIVE Objects(_, _)
Objects(names, values) ==
    IF names = {}
    THEN {NoFields}
    ELSE LET f == CHOOSE x \in names : TRUE
             rest == Objects(names \ {f}, values)
         IN  rest \cup {(f :> v) @@ o : v \in values[f], o \in rest}

\* bodies of 2xx responses (api.ts ApiResult, and the spectrogramUrl field
\* mapBackendResponse also reads)
VerdictBodies ==
    {o @@ [file_name |-> "audio.wav"] :
        o \in Objects({"prediction", "confidence"},
                      [prediction |-> {"fake", "real"},
                       confidence |-> ConfidenceValues])}
    \cup
    {o @@ [file_name |-> "audio.wav"] :
        o \in Objects({"prediction", "confidence"},
                      [prediction |-> {"deepfake", "Fake", ""},
                       confidence |-> {49999, 50000, Pct(92)}])}

SpectrogramBodies ==
    {[prediction |-> "fake", confidence |-> 92000, file_name |-> "audio.wav"]
        @@ o :
        o \in Objects({"spectrogram", "spectrogram_path"},
                      [spectrogram |-> {<<>>, DataUri},
                       spectrogram_path |-> SpectrogramPaths])}
    \cup
    {[prediction |-> "real", confidence |-> 8000, file_name |-> "audio.wav"]
        @@ o :
        o \in Objects({"spectrogram", "spectrogramUrl"},
                      [spectrogram |-> {DataUri},
                       spectrogramUrl |-> {<<"h", "t", "t", "p", ":", "/", "/", "c", "/", "a", ".", "p", "n", "g">>}])}

OtherBodies ==
    {[prediction |-> "real", spectrogram |-> DataUri] @@ o :
        o \in Objects({"file_name", "analysis_time", "spectral_heuristic",
                       "probabilities"},
                      [file_name |-> {"audio.wav"},
                       analysis_time |-> {340000},
                       spectral_heuristic |-> {1234567},
                       probabilities |-> {[fake |-> 8000, real |-> 92000]}])}

Bodies == VerdictBodies \cup SpectrogramBodies \cup OtherBodies

\* bodies of non-2xx responses as parseJson returns them: the parsed JSON
\* object, or the raw text when the body is not JSON
ErrorBodies ==
    Objects({"detail", "message"},
            [detail |-> {"", "Unsupported file"},
             message |-> {"", "Bad request"}])
    \cup {[text |-> "Internal Server Error"]}

Statuses == {400, 415, 422, 404, 500}

statusText(status) ==
    CASE status = 400 -> "400 Bad Request"
      [] status = 415 -> "415 Unsupported Media Type"
      [] status = 422 -> "422 Unprocessable Entity"
      [] status = 404 -> "404 Not Found"
      [] OTHER -> "500 Internal Server Error"

\* what fetch yields: a 2xx response with a JSON body, a 2xx response whose
\* body is not JSON (resp.json() throws), a non-2xx response, or a rejection
Responses ==
    {[kind |-> "ok", data |-> d] : d \in Bodies}
    \cup {[kind |-> "notjson"]}
    \cup {[kind |-> "error", status |-> st, body |-> b] :
            st \in Statuses, b \in ErrorBodies}
    \cup {[kind |-> "network"]}

\* the inputs of the page specification: one of each kind
PageFiles ==
    { [name |-> <<"a", ".", "w", "a", "v">>, size |-> 1],
      [name |-> <<"a", ".", "t", "x", "t">>, size |-> 1],
      [name |-> <<"a", ".", "w", "a", "v">>, size |-> MaxFileSize + 1] }

PageUrlInputs ==
    { <<" ">>,
      <<"f", "t", "p", ":", "/", "/", "x", "/", "v">>,
      <<"y", "o", "u", "t", "u", ".", "b", "e", "/", "a", "/", "b">> }

PageBodies ==
    { [prediction |-> "fake", confidence |-> 92000, spectrogram |-> DataUri,
       spectrogram_path |-> <<"/", "s", "/", "a", ".", "p", "n", "g">>,
       file_name |-> "audio.wav", analysis_time |-> 340000],
      [prediction |-> "real", confidence |-> Pct(8)],
      NoFields }

PageErrorBodies ==
    { [detail |-> "Unsupported file", message |-> "Bad request"],
      [detail |-> "", message |-> "Bad request"],
      [message |-> ""],
      [text |-> "Internal Server Error"] }

PageResponses ==
    {[kind |-> "ok", data |-> d] : d \in PageBodies}
    \cup {[kind |-> "notjson"]}
    \cup {[kind |-> "error", status |-> st, body |-> b] :
            st \in {422, 500}, b \in PageErrorBodies}
    \cup {[kind |-> "network"]}

(***************************************************************************)
(* api.ts: the error message of a failed request                           *)
(***************************************************************************)
\* parsed?.detail || parsed?.message || `${prefix} ${status} ${statusText}`
\* (a message is a sequence of text pieces)
errorMessage(parsed, prefix, status) ==
    IF Has(parsed, "detail") /\ parsed.detail # ""
    THEN <<parsed.detail>>
    ELSE IF Has(parsed, "message") /\ parsed.message # ""
    THEN <<parsed.message>>
    ELSE <<prefix, statusText(status)>>

\* the message of the error with which analyzeFile ends on response resp
analyzeFileError(resp) ==
    CASE resp.kind = "error" -> errorMessage(resp.body, "Server error", resp.status)
      [] resp.kind = "network" -> <<"Failed to fetch">>
      [] OTHER -> <<"Unexpected token in JSON">>

\* analyzeUrl, first attempt: TRUE when the call goes on to the JSON attempt
\* (api.ts lines 83-105: a 415/422/400 falls through, every other failure
\* is thrown inside the try and swallowed by its catch)
fallsBackToJson(resp) == resp.kind # "ok"

\* mutant: the error of the JSON attempt rethrown as it is
analyzeUrlErrorRethrown(resp) ==
    CASE resp.kind = "error" ->
             errorMessage(resp.body, "Server error", resp.status)
      [] resp.kind = "network" -> <<"Failed to fetch">>
      [] OTHER -> <<"Unexpected token in JSON">>

\* the message of the error with which analyzeUrl ends when its JSON
\* attempt got resp (api.ts lines 118-135)
analyzeUrlError(resp) ==
    LET errMessage ==
            CASE resp.kind = "error" ->
                     errorMessage(resp.body, "Server error", resp.status)
              [] resp.kind = "network" -> <<"Failed to fetch">>
              [] OTHER -> <<"Unexpected token in JSON">>
        fallbackMsg ==
            IF errMessage # <<>>
            THEN errMessage
            ELSE <<"Failed to contact the backend for URL analysis. Check backend logs and CORS settings.">>
    IN  <<"URL analysis failed (tried form-data and JSON). ">> \o fallbackMsg

(***************************************************************************)
(* Index.tsx: handleAnalyze and handleReset                                *)
(***************************************************************************)
\* the try block's success path: mapBackendResponse, setResult, the toast,
\* then finally setIsAnalyzing(false).  Setting a result unmounts the
\* UploadSection (Index.tsx line 184), whose youtubeUrl state is lost.
finishSuccess(call, resp) ==
    LET data == resp.data
        mapped == mapBackendResponse(data, [fileName |-> call.fileName],
                                     Field(data, "analysis_time", "analysisTime"))
    IN  /\ result' = mapped
        /\ toast' = [title |-> "Analysis Complete",
                     variant |-> "default",
                     classification |-> mapped.classification,
                     confidence |-> mapped.confidence]
        /\ isAnalyzing' = FALSE
        /\ youtubeUrl' = <<>>
        /\ calls' = {c \in calls : c.id # call.id}
        /\ done' = [type |-> call.type, outcome |-> "success", resp |-> resp]
        /\ latest' = IF call.id > latest THEN call.id ELSE latest
        /\ UNCHANGED API_BASE

\* mutant: the failure path also clears the displayed result
finishFailureClearsResult(call, resp, message) ==
    /\ toast' = [title |-> "Analysis Failed",
                 variant |-> "destructive",
                 description |->
                     IF message # <<>>
                     THEN message
                     ELSE <<"An error occurred during analysis. Please try again.">>]
    /\ isAnalyzing' = FALSE
    /\ calls' = {c \in calls : c.id # call.id}
    /\ done' = [type |-> call.type, outcome |-> "failure", resp |-> resp,
                error |-> message]
    /\ result' = NoResult
    /\ UNCHANGED <<API_BASE, youtubeUrl, latest>>

\* the catch block and finally: the toast, setIsAnalyzing(false)
finishFailure(call, resp, message) ==
    /\ toast' = [title |-> "Analysis Failed",
                 variant |-> "destructive",
                 description |->
                     IF message # <<>>
                     THEN message
                     ELSE <<"An error occurred during analysis. Please try again.">>]
    /\ isAnalyzing' = FALSE
    /\ calls' = {c \in calls : c.id # call.id}
    /\ done' = [type |-> call.type, outcome |-> "failure", resp |-> resp,
                error |-> message]
    /\ UNCHANGED <<API_BASE, result, youtubeUrl, latest>>

\* handleAnalyze up to its first await: setIsAnalyzing(true) and the first
\* request of analyzeFile / analyzeUrl; or, for an input that is neither,
\* the throw, the catch and the finally in one go.
\* fileOrUrl is [file |-> f] for a File and [url |-> u] for a string.
handleAnalyze(fileOrUrl, type) ==
    LET id == started + 1
    IN  IF type = "file" /\ Has(fileOrUrl, "file")
        THEN /\ isAnalyzing' = TRUE
             /\ started' = id
             /\ calls' = calls \cup
                    {[id |-> id, type |-> "file",
                      fileName |-> fileOrUrl.file.name,
                      stage |-> "predict",
                      sent |-> <<"POST /predict form file">>,
                      first |-> "none"]}
             /\ UNCHANGED <<API_BASE, result, toast, youtubeUrl, done, latest>>
        ELSE IF type = "url" /\ Has(fileOrUrl, "url")
        THEN /\ isAnalyzing' = TRUE
             /\ started' = id
             /\ calls' = calls \cup
                    {[id |-> id, type |-> "url",
                      fileName |-> pop(split(fileOrUrl.url, "/")),
                      stage |-> "form",
                      sent |-> <<"POST /predict-url form youtube_url">>,
                      first |-> "none"]}
             /\ UNCHANGED <<API_BASE, result, toast, youtubeUrl, done, latest>>
        ELSE /\ started' = id
             /\ finishFailure([id |-> id, type |-> type], [kind |-> "none"],
                              <<"Invalid input type for analysis.">>)

\* analyzeFile's response arrives: the rest of handleAnalyze
PredictResponse(call, resp) ==
    /\ call \in calls
    /\ call.stage = "predict"
    /\ IF resp.kind = "ok"
       THEN finishSuccess(call, resp)
       ELSE finishFailure(call, resp, analyzeFileError(resp))
    /\ UNCHANGED <<started, featVars, svcVars>>

\* analyzeUrl's form-data response arrives
FormResponse(call, resp) ==
    /\ call \in calls
    /\ call.stage = "form"
    /\ LET seen == [call EXCEPT !.first =
                        IF resp.kind = "error"
                        THEN statusText(resp.status)
                        ELSE resp.kind]
       IN  IF fallsBackToJson(resp)
           THEN /\ calls' = (calls \ {call}) \cup
                       {[seen EXCEPT
                           !.stage = "json",
                           !.sent = Append(@, "POST /predict-url json url")]}
                /\ UNCHANGED <<API_BASE, isAnalyzing, result, toast,
                               youtubeUrl, done, latest>>
           ELSE finishSuccess(seen, resp)
    /\ UNCHANGED <<started, featVars, svcVars>>

\* analyzeUrl's JSON response arrives
JsonResponse(call, resp) ==
    /\ call \in calls
    /\ call.stage = "json"
    /\ IF resp.kind = "ok"
       THEN finishSuccess(call, resp)
       ELSE finishFailure(call, resp, analyzeUrlError(resp))
    /\ UNCHANGED <<started, featVars, svcVars>>

handleReset ==
    /\ result # NoResult
    /\ result' = NoResult
    /\ UNCHANGED <<API_BASE, isAnalyzing, toast, youtubeUrl, calls, started,
                   done, latest>>
    /\ UNCHANGED <<featVars, svcVars>>

(***************************************************************************)
(* UploadSection.tsx                                                       *)
(***************************************************************************)
\* the section is rendered only while there is no result (Index.tsx 184)
UploadSectionMounted == result = NoResult

validExtensions ==
    { <<".", "w", "a", "v">>, <<".", "m", "p", "3">>, <<".", "m", "p", "4">>,
      <<".", "m", "4", "a">>, <<".", "w", "e", "b", "m">> }

\* '.' + file.name.split('.').pop()?.toLowerCase()
fileExtension(file) == <<".">> \o toLowerCase(pop(split(file.name, ".")))

showToast(title, description) ==
    /\ toast' = [title |-> title, variant |-> "destructive",
                 description |-> <<description>>]
    /\ UNCHANGED <<API_BASE, isAnalyzing, result, youtubeUrl, calls, started,
                   done, latest>>

\* mutant: a file of exactly the limit counts as too large
validateAndUploadBelowLimit(file) ==
    IF fileExtension(file) \notin validExtensions
    THEN showToast("Invalid File Type",
                   "Please upload .wav, .mp3, .mp4, .m4a, or .webm files")
    ELSE IF file.size >= MaxFileSize
    THEN showToast("File Too Large", "Please upload a file smaller than 100MB")
    ELSE handleAnalyze([file |-> file], "file")

validateAndUpload(file) ==
    IF fileExtension(file) \notin validExtensions
    THEN showToast("Invalid File Type",
                   "Please upload .wav, .mp3, .mp4, .m4a, or .webm files")
    ELSE IF file.size > MaxFileSize
    THEN showToast("File Too Large", "Please upload a file smaller than 100MB")
    ELSE handleAnalyze([file |-> file], "file")

\* the file input's onChange; the input is disabled while isAnalyzing
handleFileChange(file) ==
    /\ UploadSectionMounted
    /\ ~isAnalyzing
    /\ validateAndUpload(file)
    /\ UNCHANGED <<featVars, svcVars>>

\* the drop zone's onDrop
handleDrop(file) ==
    /\ UploadSectionMounted
    /\ validateAndUpload(file)
    /\ UNCHANGED <<featVars, svcVars>>

\* the URL input's onChange; the input is disabled while isAnalyzing
setYoutubeUrl(value) ==
    /\ UploadSectionMounted
    /\ ~isAnalyzing
    /\ youtubeUrl # value
    /\ youtubeUrl' = value
    /\ UNCHANGED <<API_BASE, isAnalyzing, result, toast, calls, started, done,
                   latest>>
    /\ UNCHANGED <<featVars, svcVars>>

\* /^(https?:\/\/)?(www\.)?(youtube\.com|youtu\.be)\/.+/ .test(s)
youtubeRegexTest(s) ==
    LET afterScheme(x) ==
            IF startsWith(x, HTTPS) THEN Drop(x, Len(HTTPS))
            ELSE IF startsWith(x, HTTP) THEN Drop(x, Len(HTTP))
            ELSE x
        WWW == <<"w", "w", "w", ".">>
        afterWww(x) == IF startsWith(x, WWW) THEN Drop(x, Len(WWW)) ELSE x
        hostThenMore(x) ==
            \E h \in {<<"y", "o", "u", "t", "u", "b", "e", ".", "c", "o", "m", "/">>, <<"y", "o", "u", "t", "u", ".", "b", "e", "/">>} :
                /\ startsWith(x, h)
                /\ Len(x) >= Len(h) + 1
                /\ x[Len(h) + 1] # "\n"
        \* each optional group taken or skipped
        candidates ==
            {s, afterScheme(s), afterWww(s), afterWww(afterScheme(s))}
    IN  \E x \in candidates : hostThenMore(x)

\* the Analyze button's onClick; the button is disabled while isAnalyzing
\* or while the URL is blank
handleYoutubeSubmit ==
    /\ UploadSectionMounted
    /\ ~isAnalyzing
    /\ trim(youtubeUrl) # <<>>
    /\ IF trim(youtubeUrl) = <<>>
       THEN showToast("URL Required", "Please enter a YouTube URL")
       ELSE IF ~youtubeRegexTest(youtubeUrl)
       THEN showToast("Invalid URL", "Please enter a valid YouTube URL")
       ELSE handleAnalyze([url |-> youtubeUrl], "url")
    /\ UNCHANGED <<featVars, svcVars>>

(***************************************************************************)
(* Feature Extractor and Classifier Adapter (inference pipeline)           *)
(***************************************************************************)
\* "Extracts 40 MFCCs"
NumCoefficients == 40
\* "Normalized to max sequence length 500"
FixedTimeSteps == 500

\* the numbers of frames the waveforms of the model yield: none, very
\* few, about the fixed length, and far more
Durations ==
    (0..MaxExtraFrames)
        \cup ((FixedTimeSteps - MaxExtraFrames)..(FixedTimeSteps + MaxExtraFrames))
        \cup {2 * FixedTimeSteps + MaxExtraFrames}

Waveforms == [id : 1..MaxWaveforms, frames : Durations]

\* coefficient c of frame t of waveform w: the transform itself is opaque
\* here, deterministic and never the padding value 0
Coefficient(w, c, t) == 1 + ((3 * w.id + c + 2 * t) % 9)

\* the cepstral coefficient sequence of w, one row per coefficient
extractMfcc(w) ==
    [c \in 1..NumCoefficients |->
        [t \in 1..w.frames |-> Coefficient(w, c, t)]]

zeros(n) == [t \in 1..n |-> 0]

\* mutant: the padding put in front, the trailing frames kept
padOrTruncateRowLeft(row) ==
    IF Len(row) < FixedTimeSteps
    THEN zeros(FixedTimeSteps - Len(row)) \o row
    ELSE SubSeq(row, Len(row) - FixedTimeSteps + 1, Len(row))

\* time-axis normalization of one row: right-pad with zeros, or keep the
\* leading frames
padOrTruncateRow(row) ==
    IF Len(row) < FixedTimeSteps
    THEN row \o zeros(FixedTimeSteps - Len(row))
    ELSE SubSeq(row, 1, FixedTimeSteps)

padOrTruncate(m) == [c \in DOMAIN m |-> padOrTruncateRow(m[c])]

\* the shape the classifier accepts
hasFixedShape(m) ==
    /\ DOMAIN m = 1..NumCoefficients
    /\ \A c \in DOMAIN m : DOMAIN m[c] = 1..FixedTimeSteps

\* the coefficient sequence is computed; a waveform with no frame fails
ExtractFeatures ==
    /\ fpc = "loaded"
    /\ IF waveform.frames = 0
       THEN /\ fpc' = "EmptyWaveform"
            /\ UNCHANGED mfcc
       ELSE /\ mfcc' = extractMfcc(waveform)
            /\ fpc' = "extracted"
    /\ UNCHANGED <<waveform, features, pageVars, svcVars>>

\* the sequence is brought to the fixed length
NormalizeTimeAxis ==
    /\ fpc = "extracted"
    /\ features' = padOrTruncate(mfcc)
    /\ fpc' = "framed"
    /\ UNCHANGED <<waveform, mfcc, pageVars, svcVars>>

\* the classifier adapter asserts the shape at its boundary
Classify ==
    /\ fpc = "framed"
    /\ fpc' = IF hasFixedShape(features) THEN "classified" ELSE "ShapeMismatch"
    /\ UNCHANGED <<waveform, mfcc, features, pageVars, svcVars>>

(***************************************************************************)
(* The service process: classifier lifecycle and the Waveform Loader       *)
(***************************************************************************)
\* the AudioSources of the model: uploads by declared extension, and URLs
AudioSources ==
    { [kind |-> "upload", declaredExtension |-> "wav"],
      [kind |-> "upload", declaredExtension |-> "txt"],
      [kind |-> "url"] }

LoaderAllowList == {"wav", "mp3", "mp4", "m4a", "webm"}

\* what the Remote Media Resolver hands back for a URL
ResolverOutcomes == {"bytes", "SourceUnavailable", "UnsupportedFormat"}

\* the temporary files request i has on disk
tempFilesOf(i) == {f \in disk : f.owner = i}

\* request i in the state after one step of its own
setRequest(i, r) == requests' = [requests EXCEPT ![i] = r]

\* process start: the one load of the classifier; a failed load is fatal
LoadClassifier(ok) ==
    /\ process = "starting"
    /\ loads' = loads + 1
    /\ classifier' = IF ok THEN "loaded" ELSE "absent"
    /\ process' = IF ok THEN "serving" ELSE "ModelUnavailable"
    /\ UNCHANGED <<requests, disk, pageVars, featVars>>

\* a request is accepted: only a serving process accepts
AcceptRequest(source) ==
    /\ process = "serving"
    /\ Len(requests) < MaxRequests
    /\ requests' = Append(requests,
                          [source |-> source, pc |-> "accepted",
                           resolved |-> "none", wrote |-> 0,
                           error |-> "none", weights |-> 0])
    /\ UNCHANGED <<process, classifier, loads, disk, pageVars, featVars>>

\* the Waveform Loader takes the source: an upload outside the allow-list
\* is rejected before any decoding, an allowed one goes to decoding (with
\* or without a temporary decoded file), a URL goes to the resolver, whose
\* fetch may write a temporary download
LoaderStart(i, writes) ==
    /\ requests[i].pc = "accepted"
    /\ LET r == requests[i]
       IN  IF r.source.kind = "upload"
              /\ r.source.declaredExtension \notin LoaderAllowList
           THEN /\ setRequest(i, [r EXCEPT !.pc = "exit",
                                           !.error = "UnsupportedFormat"])
                /\ UNCHANGED disk
           ELSE /\ setRequest(i, [r EXCEPT
                        !.pc = IF r.source.kind = "url" THEN "fetching"
                                                        ELSE "decoding",
                        !.wrote = IF writes THEN @ + 1 ELSE @])
                /\ disk' = IF writes
                           THEN disk \cup {[owner |-> i, n |-> r.wrote + 1]}
                           ELSE disk
    /\ UNCHANGED <<process, classifier, loads, pageVars, featVars>>

\* the Remote Media Resolver answers: bytes go on to decoding as an upload
\* would (with or without a temporary decoded file), a typed failure ends
\* the loader
ResolverReturns(i, outcome, writes) ==
    /\ requests[i].pc = "fetching"
    /\ LET r == requests[i]
       IN  IF outcome = "bytes"
           THEN /\ setRequest(i, [r EXCEPT
                        !.pc = "decoding",
                        !.resolved = outcome,
                        !.wrote = IF writes THEN @ + 1 ELSE @])
                /\ disk' = IF writes
                           THEN disk \cup {[owner |-> i, n |-> r.wrote + 1]}
                           ELSE disk
           ELSE /\ setRequest(i, [r EXCEPT !.pc = "exit",
                                           !.resolved = outcome,
                                           !.error = outcome])
                /\ UNCHANGED disk
    /\ UNCHANGED <<process, classifier, loads, pageVars, featVars>>

\* decoding ends: a Waveform, or CorruptMedia
Decode(i, ok) ==
    /\ requests[i].pc = "decoding"
    /\ setRequest(i, [requests[i] EXCEPT
           !.pc = "exit",
           !.error = IF ok THEN "none" ELSE "CorruptMedia"])
    /\ UNCHANGED <<process, classifier, loads, disk, pageVars, featVars>>

\* the externally imposed deadline: the fetch or the decoding is aborted
Cancel(i) ==
    /\ requests[i].pc \in {"fetching", "decoding"}
    /\ setRequest(i, [requests[i] EXCEPT !.pc = "exit",
                                         !.error = "Cancelled"])
    /\ UNCHANGED <<process, classifier, loads, disk, pageVars, featVars>>

\* mutant: the temporary files are removed on the success path only
ReleaseTempOnSuccess(i) ==
    /\ requests[i].pc = "exit"
    /\ disk' = IF requests[i].error = "none" THEN disk \ tempFilesOf(i)
                                              ELSE disk
    /\ setRequest(i, [requests[i] EXCEPT
           !.pc = IF requests[i].error = "none" THEN "waveform" ELSE "replied"])
    /\ UNCHANGED <<process, classifier, loads, pageVars, featVars>>

\* the loader's scope ends: the temporary files of the request are removed
\* on every exit path; a failure is the reply of the request
ReleaseTemp(i) ==
    /\ requests[i].pc = "exit"
    /\ disk' = disk \ tempFilesOf(i)
    /\ setRequest(i, [requests[i] EXCEPT
           !.pc = IF requests[i].error = "none" THEN "waveform" ELSE "replied"])
    /\ UNCHANGED <<process, classifier, loads, pageVars, featVars>>

\* mutant: the request loads the classifier itself before invoking it
InferReloading(i) ==
    /\ requests[i].pc = "waveform"
    /\ loads' = loads + 1
    /\ setRequest(i, [requests[i] EXCEPT !.pc = "replied",
                                         !.weights = loads + 1])
    /\ UNCHANGED <<process, classifier, disk, pageVars, featVars>>

\* features, inference and assembly: the loaded classifier is invoked, the
\* request notes which load of the weights it used
Infer(i) ==
    /\ requests[i].pc = "waveform"
    /\ classifier = "loaded"
    /\ setRequest(i, [requests[i] EXCEPT !.pc = "replied",
                                         !.weights = loads])
    /\ UNCHANGED <<process, classifier, loads, disk, pageVars, featVars>>

(***************************************************************************)
(* Specifications                                                          *)
(***************************************************************************)
InitPage ==
    /\ isAnalyzing = FALSE
    /\ result = NoResult
    /\ toast = NoFields
    /\ youtubeUrl = <<>>
    /\ calls = {}
    /\ started = 0
    /\ done = NoFields
    /\ latest = 0

IdleFeatures ==
    /\ waveform = [id |-> 0, frames |-> 0]
    /\ mfcc = <<>>
    /\ features = <<>>
    /\ fpc = "idle"

\* the service process left out of the picture
IdleService ==
    /\ process = "starting"
    /\ classifier = "absent"
    /\ loads = 0
    /\ requests = <<>>
    /\ disk = {}

\* the steps of the page: the user's actions on the upload section and the
\* results view, and the arrival of responses, with the files, URLs and
\* responses drawn from the given sets; the user's input ends once `limit`
\* analyses have been started
Step(files, urls, responses, limit) ==
    \/ \E file \in files : started < limit /\ handleFileChange(file)
    \/ \E file \in files : started < limit /\ handleDrop(file)
    \/ \E value \in urls : started < limit /\ setYoutubeUrl(value)
    \/ started < limit /\ handleYoutubeSubmit
    \/ \E call \in calls, resp \in responses : PredictResponse(call, resp)
    \/ \E call \in calls, resp \in responses : FormResponse(call, resp)
    \/ \E call \in calls, resp \in responses : JsonResponse(call, resp)
    \/ handleReset

Init ==
    /\ API_BASE = CHOOSE b \in ApiBases : Last(b) = "/"
    /\ InitPage
    /\ IdleFeatures
    /\ IdleService

Next == Step(PageFiles, PageUrlInputs, PageResponses, MaxCalls)

\* the Index page with its upload section, as the user drives it: analyses
\* may overlap
Spec == Init /\ [][Next]_vars

\* handleAnalyze called with an input that does not fit its type argument
\* (the signature allows it; the upload section never does it)
InvalidCall ==
    /\ started < MaxCalls
    /\ \/ \E file \in PageFiles : handleAnalyze([file |-> file], "url")
       \/ \E url \in PageUrlInputs : handleAnalyze([url |-> url], "file")
    /\ UNCHANGED <<featVars, svcVars>>

NextHandler == Next \/ InvalidCall

\* the same page, handleAnalyze being open to every caller its type allows
SpecHandler == Init /\ [][NextHandler]_vars

InitRequest ==
    /\ API_BASE \in ApiBases
    /\ InitPage
    /\ IdleFeatures
    /\ IdleService

NextRequest == Step(Files, UrlInputs, Responses, 1)

\* one analysis from the user's input to the displayed result, over the
\* whole range of files, URLs and responses
SpecRequest == InitRequest /\ [][NextRequest]_vars

InitFeatures ==
    /\ API_BASE = CHOOSE b \in ApiBases : Last(b) = "/"
    /\ InitPage
    /\ waveform \in Waveforms
    /\ mfcc = <<>>
    /\ features = <<>>
    /\ fpc = "loaded"
    /\ IdleService

NextFeatures == ExtractFeatures \/ NormalizeTimeAxis \/ Classify

\* the feature path of one analysis request
SpecFeatures == InitFeatures /\ [][NextFeatures]_vars

InitService ==
    /\ API_BASE = CHOOSE b \in ApiBases : Last(b) = "/"
    /\ InitPage
    /\ IdleFeatures
    /\ IdleService

NextService ==
    \/ \E ok \in BOOLEAN : LoadClassifier(ok)
    \/ \E source \in AudioSources : AcceptRequest(source)
    \/ \E i \in DOMAIN requests, writes \in BOOLEAN : LoaderStart(i, writes)
    \/ \E i \in DOMAIN requests, outcome \in ResolverOutcomes,
          writes \in BOOLEAN : ResolverReturns(i, outcome, writes)
    \/ \E i \in DOMAIN requests, ok \in BOOLEAN : Decode(i, ok)
    \/ \E i \in DOMAIN requests : Cancel(i)
    \/ \E i \in DOMAIN requests : ReleaseTemp(i)
    \/ \E i \in DOMAIN requests : Infer(i)

\* the service process from its start: the classifier's load, then the
\* requests it accepts, each through the Waveform Loader to its reply
SpecService == InitService /\ [][NextService]_vars

(***************************************************************************)
(* Properties                                                              *)
(***************************************************************************)
\* C1: whatever the non-empty duration, the FeatureMatrix handed to the
\* classifier has exactly NumCoefficients rows of FixedTimeSteps frames;
\* its leading frames are the extracted ones in their order, every frame
\* after the last extracted one is zero, and a longer sequence is cut to
\* its leading FixedTimeSteps frames.  The shape check never fails.
C1_FixedShape ==
    /\ fpc # "ShapeMismatch"
    /\ waveform.frames > 0 /\ fpc \in {"extracted", "framed", "classified"} =>
           /\ DOMAIN mfcc = 1..NumCoefficients
           /\ \A c \in 1..NumCoefficients : Len(mfcc[c]) = waveform.frames
    /\ fpc \in {"framed", "classified"} =>
           /\ DOMAIN features = 1..NumCoefficients
           /\ \A c \in 1..NumCoefficients :
                  /\ Len(features[c]) = FixedTimeSteps
                  /\ \A t \in 1..FixedTimeSteps :
                         features[c][t] =
                             IF t <= waveform.frames THEN mfcc[c][t] ELSE 0

\* a one-frame waveform has been framed: 499 trailing zero frames
C1_Witness ==
    /\ fpc = "classified"
    /\ waveform.frames = 1
    /\ features[1][1] # 0
    /\ features[NumCoefficients][FixedTimeSteps] = 0

\* the body of the response the last handleAnalyze mapped
lastData == done.resp.data

\* a result is displayed, mapped from the response of the analysis that
\* ended last
Displayed ==
    /\ result # NoResult
    /\ Has(done, "resp")
    /\ done.resp.kind = "ok"

\* C2: in every displayed result the label is deepfake exactly when the
\* deepfake probability shown with it is at least 50%.  Stated for the
\* responses that themselves obey the threshold (prediction fake exactly
\* when the fraction carried is at least 0.5).
C2_LabelIffThreshold ==
    (/\ Displayed
     /\ Has(lastData, "prediction") /\ lastData.prediction \in {"fake", "real"}
     /\ Has(lastData, "confidence")
     /\ lastData.confidence >= 0 /\ lastData.confidence <= One
     /\ (lastData.prediction = "fake" <=> 2 * lastData.confidence >= One))
    => (ResultsDisplay(result).heading = "Deepfake Detected"
            <=> ResultsDisplay(result).deepfakeProbability >= Pct(50))

\* the extension a file name declares: what follows its last dot, none
\* (the empty sequence) when the name has no dot
DeclaredExtension(name) ==
    IF \E i \in 1..Len(name) : name[i] = "."
    THEN LET i == CHOOSE k \in 1..Len(name) :
                      name[k] = "." /\ \A j \in (k + 1)..Len(name) : name[j] # "."
         IN  SubSeq(name, i + 1, Len(name))
    ELSE <<>>

AllowedExtensions ==
    { <<"w", "a", "v">>, <<"m", "p", "3">>, <<"m", "p", "4">>,
      <<"m", "4", "a">>, <<"w", "e", "b", "m">> }

\* C3: a file is passed on to analysis (a POST /predict is pending for it)
\* only if the extension its name declares, lower-cased, is on the
\* allow-list.
C3_OnlyAllowedExtensions ==
    \A call \in calls :
        call.type = "file" =>
            /\ DeclaredExtension(call.fileName) # <<>>
            /\ toLowerCase(DeclaredExtension(call.fileName)) \in AllowedExtensions

\* C4: the percentage ResultsDisplay renders is the confidence of the
\* result as mapBackendResponse normalized it, never rescaled; for a
\* response carrying a fraction c it is 100 * c rounded to two decimals,
\* for one carrying a percentage it is that percentage rounded.
C4_ConvertedOnce ==
    Displayed =>
        /\ deepfakeProbability(result) = result.confidence
        /\ Has(lastData, "confidence") =>
               IF lastData.confidence <= One
               THEN deepfakeProbability(result)
                        = Round2(100 * lastData.confidence)
               ELSE deepfakeProbability(result)
                        = Round2(lastData.confidence)

\* a result of 1% or less (and above 0) is displayed
C4_Witness ==
    /\ Displayed
    /\ result.confidence > 0
    /\ result.confidence <= One

\* C5: a response carrying the fraction p, 0 <= p <= 1, and the response
\* carrying the percentage 100 * p instead are displayed with the same
\* percentage.
C5_BothUnitsAgree ==
    (/\ Displayed
     /\ Has(lastData, "confidence")
     /\ lastData.confidence >= 0 /\ lastData.confidence <= One)
    => LET asPercentage == [lastData EXCEPT !.confidence = 100 * @]
           mapped == mapBackendResponse(asPercentage, NoFields, NoFields)
       IN  ResultsDisplay(mapped).deepfakeProbability
               = ResultsDisplay(result).deepfakeProbability

\* C6: the two percentages rendered add up to 100, the genuine one being
\* 100 minus the deepfake one.
C6_ProbabilitiesSumTo100 ==
    Displayed =>
        /\ ResultsDisplay(result).deepfakeProbability
               + ResultsDisplay(result).genuineProbability = Pct(100)
        /\ ResultsDisplay(result).genuineProbability
               = Pct(100) - ResultsDisplay(result).deepfakeProbability

\* 49.99% deepfake and 50.01% genuine are displayed
C6_Witness ==
    /\ Displayed
    /\ ResultsDisplay(result).deepfakeProbability = Pct(50) - One \div 100
    /\ ResultsDisplay(result).genuineProbability = Pct(50) + One \div 100

\* C7: a stored result comes from a response that carried both the
\* prediction and the confidence: neither is a default.
C7_NoDefaultedFields ==
    Displayed =>
        /\ Has(lastData, "prediction")
        /\ Has(lastData, "confidence")

\* a step in which a handleAnalyze invocation ends: a pending call is
\* gone, or an invocation came and went at once
EndsAnalysis ==
    \/ calls' # calls /\ calls' \subseteq calls
    \/ started' # started /\ calls' = calls

\* the message /predict's failure is to carry: the backend's detail, else
\* its message, else the status line
PredictFailureMessage(resp) ==
    IF "detail" \in DOMAIN resp.body /\ resp.body.detail # ""
    THEN <<resp.body.detail>>
    ELSE IF "message" \in DOMAIN resp.body /\ resp.body.message # ""
    THEN <<resp.body.message>>
    ELSE <<"Server error", statusText(resp.status)>>

\* C8: whenever an analysis ends on anything but a 2xx response with a JSON
\* body (non-2xx response, network error, unreadable body, input that is
\* neither file nor URL), the error caught carries a non-empty message,
\* the toast shown is 'Analysis Failed' with that message, the result on
\* display is the one displayed before, and for POST /predict the message
\* of a non-2xx response is detail, else message, else the status line.
C8_FailureShownResultKept ==
    [][(EndsAnalysis /\ done'.resp.kind # "ok") =>
         /\ done'.error # <<>>
         /\ toast' = [title |-> "Analysis Failed",
                      variant |-> "destructive",
                      description |-> done'.error]
         /\ result' = result
         /\ (done'.type = "file" /\ done'.resp.kind = "error") =>
                done'.error = PredictFailureMessage(done'.resp)
         /\ done'.resp.kind = "none" =>
                done'.error = <<"Invalid input type for analysis.">>]_vars

\* a request failed with a non-2xx response while a result was displayed
C8_Witness ==
    /\ result # NoResult
    /\ Has(done, "resp")
    /\ done.resp.kind = "error"
    /\ Has(toast, "title")
    /\ toast.title = "Analysis Failed"

\* C9 as stated: a response with neither spectrogram nor spectrogram_path
\* gives a displayed result with label and confidence, no spectrogramUrl
\* and the placeholder.
C9_NoSpectrogramFields ==
    (/\ Has(done, "resp")
     /\ done.resp.kind = "ok"
     /\ ~Has(lastData, "spectrogram")
     /\ ~Has(lastData, "spectrogram_path"))
    => /\ done.outcome = "success"
       /\ result # NoResult =>
              /\ result.classification \in {"genuine", "deepfake"}
              /\ Has(result, "confidence")
              /\ ~Has(result, "spectrogramUrl")
              /\ ResultsDisplay(result).image = <<"placeholder">>

\* C9, amended: a response with none of spectrogram, spectrogram_path and
\* spectrogramUrl gives a displayed result with label and confidence, no
\* spectrogramUrl and the placeholder.
C9_NoSpectrogramStillVerdict ==
    (/\ Has(done, "resp")
     /\ done.resp.kind = "ok"
     /\ ~Has(lastData, "spectrogram")
     /\ ~Has(lastData, "spectrogram_path")
     /\ ~Has(lastData, "spectrogramUrl"))
    => /\ done.outcome = "success"
       /\ result # NoResult =>
              /\ result.classification \in {"genuine", "deepfake"}
              /\ Has(result, "confidence")
              /\ ~Has(result, "spectrogramUrl")
              /\ ResultsDisplay(result).image = <<"placeholder">>

\* a verdict is displayed for a response without any spectrogram field
C9_Witness ==
    /\ Displayed
    /\ ~Has(lastData, "spectrogram")
    /\ ~Has(lastData, "spectrogram_path")
    /\ ~Has(lastData, "spectrogramUrl")
    /\ result.classification = "deepfake"
    /\ ResultsDisplay(result).image = <<"placeholder">>

\* C10: when the response carries the inline data URI and no persisted
\* path, the result's spectrogramUrl is that data URI, unchanged and not
\* empty, and it is the image ResultsDisplay shows.
C10_InlineAlone ==
    (/\ Displayed
     /\ Truthy(lastData, "spectrogram")
     /\ ~Truthy(lastData, "spectrogram_path"))
    => /\ Has(result, "spectrogramUrl")
       /\ result.spectrogramUrl # <<>>
       /\ result.spectrogramUrl = lastData.spectrogram
       /\ ResultsDisplay(result).image = <<"img", lastData.spectrogram>>

\* the data URI is displayed, the response carrying no path
C10_Witness ==
    /\ Displayed
    /\ ~Has(lastData, "spectrogram_path")
    /\ Has(result, "spectrogramUrl")
    /\ result.spectrogramUrl = DataUri

\* the statuses on which analyzeUrl's form-data attempt counts as rejected
RejectionStatuses == {statusText(400), statusText(415), statusText(422)}

\* C11: a call of analyzeUrl sends the form-data request first, and once
\* that attempt is over the JSON request has been sent exactly when the
\* attempt ended on a 400, 415 or 422 response; after any other failure
\* (another status, a network error, an unreadable body) no second request
\* is made.
C11_FallbackIffRejected ==
    \A call \in calls :
        call.type = "url" =>
            /\ call.sent[1] = "POST /predict-url form youtube_url"
            /\ call.first # "none" =>
                   (Len(call.sent) = 2 <=> call.first \in RejectionStatuses)

\* C12: the classifier is loaded at most once; a request is accepted only
\* after that one load has succeeded, every inference uses the weights of
\* that load, and a process whose load failed (ModelUnavailable) has
\* accepted no request.
C12_LoadedOnceBeforeServing ==
    /\ loads <= 1
    /\ requests # <<>> =>
           /\ loads = 1
           /\ classifier = "loaded"
           /\ process = "serving"
    /\ \A i \in DOMAIN requests :
           requests[i].weights # 0 => requests[i].weights = 1
    /\ process = "ModelUnavailable" =>
           /\ loads = 1
           /\ classifier # "loaded"
           /\ requests = <<>>

\* two requests have been answered by inference on the one load
C12_Witness ==
    /\ loads = 1
    /\ Len(requests) = 2
    /\ \A i \in DOMAIN requests :
           requests[i].pc = "replied" /\ requests[i].weights = 1

\* C13: a request whose URL the Remote Media Resolver reported unavailable
\* fails with SourceUnavailable, and once the Waveform Loader is left
\* (with a Waveform, on a decode failure, on a resolver failure, on
\* cancellation) none of the request's temporary files is on disk.
C13_NoTempFileRemains ==
    \A i \in DOMAIN requests :
        /\ requests[i].resolved = "SourceUnavailable" =>
               /\ requests[i].pc \in {"exit", "replied"}
               /\ requests[i].error = "SourceUnavailable"
               /\ requests[i].weights = 0
        /\ requests[i].pc \in {"waveform", "replied"} => tempFilesOf(i) = {}
        /\ \A f \in disk : f.owner \in DOMAIN requests

\* a URL reported unavailable after its fetch wrote a temporary file, and a
\* cancelled request that had written one: both answered, the disk empty
C13_Witness ==
    /\ disk = {}
    /\ \E i \in DOMAIN requests :
           /\ requests[i].pc = "replied"
           /\ requests[i].error = "SourceUnavailable"
           /\ requests[i].wrote > 0
    /\ \E i \in DOMAIN requests :
           /\ requests[i].pc = "replied"
           /\ requests[i].error = "Cancelled"
           /\ requests[i].wrote > 0

\* a response that obeys the decision threshold itself: a fraction with
\* the prediction fake exactly when the fraction is at least 0.5
ObeysThreshold(d) ==
    /\ Has(d, "prediction") /\ d.prediction \in {"fake", "real"}
    /\ Has(d, "confidence")
    /\ d.confidence >= 0 /\ d.confidence <= One
    /\ (d.prediction = "fake" <=> 2 * d.confidence >= One)

\* the response d with the fraction c in place of its own, and the
\* prediction the threshold gives c
WithFraction(d, c) ==
    [d EXCEPT !.confidence = c,
              !.prediction = IF 2 * c >= One THEN "fake" ELSE "real"]

\* C14: for a response that obeys the threshold, the label displayed is
\* deepfake exactly when the unrounded fraction is at least 0.5, whatever
\* the rounded percentage shown with it; a response on the other side of
\* 0.5 whose percentage rounds to the same displayed value is displayed
\* with the other label; and ResultsDisplay given the response itself
\* decides the same label.
C14_LabelFromUnrounded ==
    (Displayed /\ ObeysThreshold(lastData)) =>
        /\ isDeepfake(result) <=> 2 * lastData.confidence >= One
        /\ isDeepfake(lastData) <=> isDeepfake(result)
        /\ \A c \in {v \in ConfidenceValues : v >= 0 /\ v <= One} :
               LET other == mapBackendResponse(WithFraction(lastData, c),
                                               NoFields, NoFields)
               IN  (/\ deepfakeProbability(other) = deepfakeProbability(result)
                    /\ (2 * c >= One) # (2 * lastData.confidence >= One))
                   => isDeepfake(other) # isDeepfake(result)

\* 0.49995 is displayed as 50% under the label genuine, as 0.5 is under
\* the label deepfake
C14_Witness ==
    /\ Displayed
    /\ ObeysThreshold(lastData)
    /\ lastData.confidence = 49995
    /\ deepfakeProbability(result) = Pct(50)
    /\ ~isDeepfake(result)
    /\ LET other == mapBackendResponse(WithFraction(lastData, 50000),
                                       NoFields, NoFields)
       IN  deepfakeProbability(other) = Pct(50) /\ isDeepfake(other)

\* C15: a call of analyzeUrl has sent at most two requests, the form-data
\* one first and the JSON one second; the JSON one has not been sent when
\* the form-data request came back with a successful (2xx) response; and
\* the result of a call that succeeded is mapped from the body of the
\* response that ended it.
C15_JsonNeverAfterSuccess ==
    /\ \A call \in calls :
           call.type = "url" =>
               /\ Len(call.sent) \in {1, 2}
               /\ call.sent[1] = "POST /predict-url form youtube_url"
               /\ Len(call.sent) = 2 =>
                      /\ call.sent[2] = "POST /predict-url json url"
                      /\ call.first \notin {"none", "ok", "notjson"}
    /\ (Displayed /\ done.type = "url") =>
           /\ result.classification = classificationOf(lastData)
           /\ result.confidence = Round2(toPercent(confidenceRawOf(lastData)))

\* the call with this id is pending before the step and gone after it
Ends(call) == call \in calls /\ \A c \in calls' : c.id # call.id

C17_OneInFlight == Cardinality(calls) <= 1

\* C18: isAnalyzing is true exactly while an analysis started by
\* handleAnalyze is pending: never false with a request pending, never
\* true with none.
C18_AnalyzingIffPending == isAnalyzing <=> calls # {}

\* C19: an analysis that completes sets the result only if no analysis
\* started after it has had its result displayed before, be that result
\* still on display (it would be overwritten) or reset by the user since.
C19_LatestStartedWins ==
    [][\A call \in calls :
           (Ends(call) /\ done'.outcome = "success") => call.id > latest]_vars

\* the response says fake: its prediction is the string fake or deepfake
SaysFake(d) ==
    "prediction" \in DOMAIN d /\ d.prediction \in {"fake", "deepfake"}

\* C20: the result mapped from a response is labelled deepfake exactly
\* when the prediction of the response is 'fake' or 'deepfake' and genuine
\* in every other case ('real', no prediction, another case, the empty
\* string); ResultsDisplay shows that label, and decides the same label
\* when it is given the response itself.
C20_DeepfakeIffFakeString ==
    Displayed =>
        /\ result.classification
               = (IF SaysFake(lastData) THEN "deepfake" ELSE "genuine")
        /\ ResultsDisplay(result).heading
               = (IF SaysFake(lastData) THEN "Deepfake Detected"
                                        ELSE "Genuine Audio")
        /\ normalized(lastData).classification
               = (IF SaysFake(lastData) THEN "deepfake" ELSE "genuine")

\* a response predicting 'Fake' (capitalised) is displayed as genuine
C20_Witness ==
    /\ Displayed
    /\ Has(lastData, "prediction")
    /\ lastData.prediction = "Fake"
    /\ result.classification = "genuine"
    /\ ResultsDisplay(result).heading = "Genuine Audio"

\* C21: the deepfake percentage and the genuine percentage ResultsDisplay
\* renders for a displayed result both lie between 0 and 100.
C21_PercentagesInRange ==
    Displayed =>
        /\ deepfakeProbability(result) >= 0
        /\ deepfakeProbability(result) <= Pct(100)
        /\ genuineProbability(result) >= 0
        /\ genuineProbability(result) <= Pct(100)

\* C22: for the response a displayed result was mapped from, the
\* raw-response branch of ResultsDisplay.normalized yields the
\* classification, the confidence percentage and the spectrogramUrl that
\* mapBackendResponse has put into the result (an undefined spectrogramUrl
\* only where the result's is undefined too).
C22_NormalizersAgree ==
    Displayed =>
        /\ normalizedApi(lastData).classification = result.classification
        /\ normalizedApi(lastData).confidence = result.confidence
        /\ Has(normalizedApi(lastData), "spectrogramUrl")
               <=> Has(result, "spectrogramUrl")
        /\ Has(result, "spectrogramUrl") =>
               normalizedApi(lastData).spectrogramUrl = result.spectrogramUrl

\* the step is the user giving this file to the upload section, through
\* the file picker or the drop zone
Offers(file) == handleFileChange(file) \/ handleDrop(file)

\* the name of the file declares an extension of the allow-list
HasAllowedExtension(file) ==
    /\ DeclaredExtension(file.name) # <<>>
    /\ toLowerCase(DeclaredExtension(file.name)) \in AllowedExtensions

\* the step passes the file to onAnalyze exactly once: one more
\* handleAnalyze invocation, one more pending call, which is for this file
\* and has sent its one POST /predict
PassedOnce(file) ==
    /\ started' = started + 1
    /\ \E call \in calls' :
           /\ calls' = calls \cup {call}
           /\ call \notin calls
           /\ call.id = started'
           /\ call.type = "file"
           /\ call.fileName = file.name
           /\ call.sent = <<"POST /predict form file">>

\* the step starts no analysis
NotPassed == calls' = calls /\ started' = started /\ isAnalyzing' = isAnalyzing

=============================================================================
